---- MODULE Spec2Model ----
(***************************************************************************)
(* Car Parts Classification (src/app.py): a Streamlit script.  The process *)
(* holds the st.cache_resource cache of load_model, the model artifact on  *)
(* disk and the camera devices; every user interaction runs main() once.   *)
(*                                                                         *)
(* Python values: None is -1, a model handle is a positive integer (one    *)
(* fresh handle per deserialization), a capture is the device index it was *)
(* opened on.  Python's 0-based indexing is kept: At(s, i) is s[i].        *)
(* Probabilities are integers in thousandths.                              *)
(***************************************************************************)
EXTENDS Integers, Sequences, FiniteSets, TLC

MaxRuns == 2
MaxFrames == 2

NumProbe == 4

None == -1

At(s, i) == s[i + 1]

range(n) == 0 .. (n - 1)

(***************************************************************************)
(* class_names, lines 30-42.                                               *)
(***************************************************************************)
class_names_short ==
  << "AIR COMPRESSOR", "ALTERNATOR", "BATTERY", "BRAKE CALIPER", "BRAKE PAD",
     "BRAKE ROTOR", "CAMSHAFT", "CARBERATOR", "CLUTCH PLATE", "COIL SPRING",
     "CRANKSHAFT", "CYLINDER HEAD", "DISTRIBUTOR", "ENGINE BLOCK", "ENGINE VALVE",
     "FUEL INJECTOR", "FUSE BOX", "GAS CAP", "HEADLIGHTS", "IDLER ARM",
     "IGNITION COIL", "INSTRUMENT CLUSTER", "LEAF SPRING", "LOWER CONTROL ARM",
     "MUFFLER", "OIL FILTER", "OIL PAN", "OIL PRESSURE SENSOR", "OVERFLOW TANK",
     "OXYGEN SENSOR", "PISTON", "PRESSURE PLATE", "RADIATOR", "RADIATOR FAN",
     "RADIATOR HOSE", "RADIO", "RIM", "SHIFT KNOB", "SIDE MIRROR", "SPARK PLUG",
     "SPOILER", "STARTER", "TAILLIGHTS", "THERMOSTAT", "TORQUE CONVERTER",
     "TRANSMISSION", "VACUUM BRAKE BOOSTER", "VALVE LIFTER", "WATER PUMP" >>

class_names ==
  << "AIR COMPRESSOR", "ALTERNATOR", "BATTERY", "BRAKE CALIPER", "BRAKE PAD",
     "BRAKE ROTOR", "CAMSHAFT", "CARBERATOR", "CLUTCH PLATE", "COIL SPRING",
     "CRANKSHAFT", "CYLINDER HEAD", "DISTRIBUTOR", "ENGINE BLOCK", "ENGINE VALVE",
     "FUEL INJECTOR", "FUSE BOX", "GAS CAP", "HEADLIGHTS", "IDLER ARM",
     "IGNITION COIL", "INSTRUMENT CLUSTER", "LEAF SPRING", "LOWER CONTROL ARM",
     "MUFFLER", "OIL FILTER", "OIL PAN", "OIL PRESSURE SENSOR", "OVERFLOW TANK",
     "OXYGEN SENSOR", "PISTON", "PRESSURE PLATE", "RADIATOR", "RADIATOR FAN",
     "RADIATOR HOSE", "RADIO", "RIM", "SHIFT KNOB", "SIDE MIRROR", "SPARK PLUG",
     "SPOILER", "STARTER", "TAILLIGHTS", "THERMOSTAT", "TORQUE CONVERTER",
     "TRANSMISSION", "VACUUM BRAKE BOOSTER", "VALVE LIFTER", "WATER PUMP",
     "WINDOW REGULATOR" >>

(***************************************************************************)
(* model.predict(img, verbose=0), line 56: the classifier is opaque; it    *)
(* returns a batch of one distribution over the labels it was trained on.  *)
(* The outputs drawn here: one clear peak, two tied peaks, all tied.       *)
(***************************************************************************)
Peaks == {23, Len(class_names) - 1}

OnePeak(a) == [k \in 1 .. Len(class_names) |-> IF k = a + 1 THEN 804 ELSE 4]

TwoPeaks(a, b) ==
  [k \in 1 .. Len(class_names) |-> IF k = a + 1 \/ k = b + 1 THEN 404 ELSE 4]

Uniform == [k \in 1 .. Len(class_names) |-> 20]

Distributions ==
  {OnePeak(a) : a \in Peaks}
    \cup {TwoPeaks(p[1], p[2]) : p \in {q \in Peaks \X Peaks : q[1] < q[2]}}
    \cup {Uniform}

(***************************************************************************)
(* np.argmax, line 57: a left-to-right scan that replaces the running best *)
(* only on a strictly greater value.  argmax_scan(a, lo, hi, best) scans   *)
(* a[lo..hi] in index order starting from the running best; the range is   *)
(* scanned as its left half, whose best is computed first, followed by its *)
(* right half.                                                             *)
(***************************************************************************)
RECURSIVE argmax_scan(_, _, _, _)
argmax_scan(a, lo, hi, best) ==
  IF lo > hi
    THEN best
    ELSE IF lo = hi
           THEN IF At(a, lo) > At(a, best) THEN lo ELSE best
           ELSE LET mid == (lo + hi) \div 2
                    left == argmax_scan(a, lo, mid, best)
                IN  IF left \in range(Len(a))
                      THEN argmax_scan(a, mid + 1, hi, left)
                      ELSE left

RECURSIVE argmax_scan_last(_, _, _, _)
argmax_scan_last(a, lo, hi, best) ==
  IF lo > hi
    THEN best
    ELSE IF lo = hi
           THEN IF At(a, lo) >= At(a, best) THEN lo ELSE best
           ELSE LET mid == (lo + hi) \div 2
                    left == argmax_scan_last(a, lo, mid, best)
                IN  IF left \in range(Len(a))
                      THEN argmax_scan_last(a, mid + 1, hi, left)
                      ELSE left

argmax_last(a) == argmax_scan_last(a, 1, Len(a) - 1, 0)

argmax(a) == argmax_scan(a, 1, Len(a) - 1, 0)

(***************************************************************************)
(* predict, lines 55-59; prediction is what model.predict returned.        *)
(***************************************************************************)
predict(prediction) ==
  LET predicted_class_idx == argmax(At(prediction, 0))
      confidence == At(At(prediction, 0), predicted_class_idx)
  IN  << At(class_names, predicted_class_idx), confidence, At(prediction, 0) >>

(***************************************************************************)
(* get_webcam, lines 61-66: open[idx] is whether cv2.VideoCapture(idx)     *)
(* reports isOpened().                                                     *)
(***************************************************************************)
RECURSIVE probe(_, _, _)
probe(open, idx, tried) ==
  IF idx >= NumProbe
    THEN [cap |-> None, probed |-> tried]
    ELSE IF open[idx]
           THEN [cap |-> idx, probed |-> Append(tried, idx)]
           ELSE probe(open, idx + 1, Append(tried, idx))

RECURSIVE probe_all(_, _, _, _)
probe_all(open, idx, tried, found) ==
  IF idx >= NumProbe
    THEN [cap |-> found, probed |-> tried]
    ELSE probe_all(open, idx + 1, Append(tried, idx),
                   IF open[idx] THEN idx ELSE found)

get_webcam_last(open) == probe_all(open, 0, << >>, None)

get_webcam(open) == probe(open, 0, << >>)

(***************************************************************************)
(* The model artifact.  fileState is what is at models/best_model.keras;   *)
(* remote is what the download URL serves when this run calls load_model.  *)
(***************************************************************************)
FileStates == {"absent", "valid", "corrupt"}

RemoteStates == {"unreachable", "ok", "corrupt"}

(***************************************************************************)
(* gdown.download(model_url, output=model_path), line 24.  gdown writes to *)
(* a temporary file next to the target and moves it into place only when   *)
(* the transfer has completed; an unreachable remote raises.               *)
(***************************************************************************)
gdown_download_partial(rem, fileS) ==
  CASE rem = "ok" -> [raised |-> FALSE, fileState |-> "valid"]
    [] rem = "corrupt" -> [raised |-> FALSE, fileState |-> "corrupt"]
    [] OTHER -> [raised |-> TRUE, fileState |-> "corrupt"]

gdown_download(rem, fileS) ==
  CASE rem = "ok" -> [raised |-> FALSE, fileState |-> "valid"]
    [] rem = "corrupt" -> [raised |-> FALSE, fileState |-> "corrupt"]
    [] OTHER -> [raised |-> TRUE, fileState |-> fileS]

(***************************************************************************)
(* tf.keras.models.load_model(model_path), line 25: a fresh handle, or an  *)
(* exception when the file is not a loadable model.                        *)
(***************************************************************************)
keras_load_model(fileS, fresh) ==
  IF fileS = "valid"
    THEN [raised |-> FALSE, handle |-> fresh]
    ELSE [raised |-> TRUE, handle |-> None]

(***************************************************************************)
(* The body of load_model, lines 17-28.  st counts what the body did.      *)
(***************************************************************************)
load_model_body(dirE, fileS, rem, st) ==
  LET missing == fileS = "absent"
      dl == IF missing
              THEN gdown_download(rem, fileS)
              ELSE [raised |-> FALSE, fileState |-> fileS]
      st1 == [st EXCEPT !.bodyRuns = @ + 1,
                        !.fileChecks = @ + 1,
                        !.downloads = @ + (IF missing THEN 1 ELSE 0)]
      ld == keras_load_model(dl.fileState, st.deserializations + 1)
  IN  IF dl.raised
        THEN [result |-> None, error |-> "download", dirExists |-> TRUE,
              fileState |-> dl.fileState, stats |-> st1]
        ELSE [result |-> ld.handle,
              error |-> IF ld.raised THEN "deserialize" ELSE "none",
              dirExists |-> TRUE, fileState |-> dl.fileState,
              stats |-> [st1 EXCEPT !.deserializations = @ + 1]]

(***************************************************************************)
(* load_model under @st.cache_resource, lines 15-28: the decorator keeps   *)
(* the first return value, None included, for the life of the process and  *)
(* returns it to every later call without running the body.                *)
(***************************************************************************)
load_model_uncached(c, dirE, fileS, rem, st) ==
  LET b == load_model_body(dirE, fileS, rem, st)
  IN  [result |-> b.result, error |-> b.error, dirExists |-> b.dirExists,
       fileState |-> b.fileState, stats |-> b.stats,
       cache |-> [set |-> TRUE, value |-> b.result], ranBody |-> TRUE]

load_model(c, dirE, fileS, rem, st) ==
  IF c.set
    THEN [result |-> c.value, error |-> "none", dirExists |-> dirE,
          fileState |-> fileS, stats |-> st, cache |-> c, ranBody |-> FALSE]
    ELSE LET b == load_model_body(dirE, fileS, rem, st)
         IN  [result |-> b.result, error |-> b.error, dirExists |-> b.dirExists,
              fileState |-> b.fileState, stats |-> b.stats,
              cache |-> [set |-> TRUE, value |-> b.result], ranBody |-> TRUE]

MsgLoadError == "Error loading model"

MsgFailed == "Failed to load model. Please refresh the page."

MsgNoWebcam == "No webcam found. Please ensure it's connected and permissions are granted."

VARIABLES
  dirExists, fileState, remote,   \* the artifact directory, file and remote source
  cache,                          \* st.cache_resource entry of load_model
  stats,                          \* what the bodies of load_model have done so far
  results,                        \* what each load_model call returned, in order
  entry,                          \* file and remote state when the body last ran
  loadError,                      \* the exception the body last caught
  loadable,                       \* whether the artifact was loadable at the last call
  opened,                         \* the indices this run tried that did open
  held,                           \* capture devices opened and not released
  noWebcamAt,                     \* the model handle of the run that found no camera
  pc, runs,                       \* position of the script; script runs so far
  clicked, option, uploaded_file, \* widget values of the current run
  model, cap, stop_button,        \* locals of main
  probed,                         \* indices get_webcam tried in this run
  offered,                        \* the input method radio was rendered in this run
  frames,                         \* frames read, predicted and displayed in this run
  releases,                       \* cap.release() calls in this run
  rerunRequested,                 \* a rerun request is pending in the script runner
  stopAt,                         \* frames when the stop was issued
  atRelease,                      \* frames when the device was released
  pendingExc,                     \* the exception unwinding through finally
  outcome, raised,                \* how the last run ended; what it raised
  messages,                       \* st.error messages of this run
  prediction, result, shown       \* classifier output, predict's return, the display

vars ==
  << dirExists, fileState, remote, cache, stats, results, entry, loadError,
     loadable, opened, held, noWebcamAt, pc, runs, clicked, option,
     uploaded_file, model, cap, stop_button, probed, offered, frames, releases,
     rerunRequested, stopAt, atRelease, pendingExc, outcome, raised, messages,
     prediction, result, shown >>

processVars ==
  << dirExists, fileState, cache, stats, results, entry, loadError, loadable >>

NoFrames == [read |-> 0, predicted |-> 0, displayed |-> 0]

NoStats == [bodyRuns |-> 0, fileChecks |-> 0, downloads |-> 0, deserializations |-> 0]

LoopPcs == {"loop_test", "loop_read", "loop_infer", "loop_display"}

Init ==
  /\ dirExists \in BOOLEAN
  /\ fileState \in FileStates
  /\ fileState # "absent" => dirExists
  /\ remote = "unreachable"
  /\ cache = [set |-> FALSE, value |-> None]
  /\ stats = NoStats
  /\ results = << >>
  /\ entry = << >>
  /\ loadError = "none"
  /\ loadable = FALSE
  /\ opened = {}
  /\ held = {}
  /\ noWebcamAt = None
  /\ pc = "idle"
  /\ runs = 0
  /\ clicked = "none"
  /\ option = "Upload Image"
  /\ uploaded_file = None
  /\ model = None
  /\ cap = None
  /\ stop_button = FALSE
  /\ probed = << >>
  /\ offered = FALSE
  /\ frames = NoFrames
  /\ releases = 0
  /\ rerunRequested = FALSE
  /\ stopAt = << >>
  /\ atRelease = << >>
  /\ pendingExc = "none"
  /\ outcome = "none"
  /\ raised = "none"
  /\ messages = {}
  /\ prediction = << >>
  /\ result = << >>
  /\ shown = << >>

(***************************************************************************)
(* The script runner starts main() for a user interaction: the widget      *)
(* values of the run are the interaction's, the locals are fresh.          *)
(***************************************************************************)
BeginRun(click, opt, file) ==
  /\ pc' = "main"
  /\ runs' = runs + 1
  /\ clicked' = click
  /\ option' = opt
  /\ uploaded_file' = file
  /\ model' = None
  /\ cap' = None
  /\ stop_button' = FALSE
  /\ probed' = << >>
  /\ offered' = FALSE
  /\ frames' = NoFrames
  /\ releases' = 0
  /\ rerunRequested' = FALSE
  /\ stopAt' = << >>
  /\ atRelease' = << >>
  /\ pendingExc' = "none"
  /\ outcome' = "none"
  /\ raised' = "none"
  /\ messages' = {}
  /\ prediction' = << >>
  /\ result' = << >>
  /\ shown' = << >>
  /\ remote' = "unreachable"
  /\ opened' = {}
  /\ UNCHANGED << processVars, held, noWebcamAt >>

(***************************************************************************)
(* A page load or refresh, an upload, a radio change or a click on Start   *)
(* Webcam.  The run is given the widget values the interaction leaves; the *)
(* runs that only brought the widgets to these values are not counted.     *)
(***************************************************************************)
UserInteraction ==
  /\ pc = "idle"
  /\ ~rerunRequested
  /\ runs < MaxRuns
  /\ \E opt \in {"Upload Image", "Webcam"}, file \in {None, 1}, click \in {"none", "start"} :
       /\ click = "start" => opt = "Webcam"
       /\ file # None => opt = "Upload Image"
       /\ BeginRun(click, opt, file)

(* The rerun the script runner starts after a click on Stop Webcam. *)
Rerun ==
  /\ pc = "idle"
  /\ rerunRequested
  /\ BeginRun("stop", option, None)

(***************************************************************************)
(* main, lines 72-77: load the model; without one, show the error and      *)
(* return; with one, offer the input method.                               *)
(***************************************************************************)
model_is_none_never(m) == FALSE

model_is_none(m) == m = None

main_load ==
  /\ pc = "main"
  /\ \E rem \in RemoteStates :
     LET r == load_model(cache, dirExists, fileState, rem, stats)
     IN  /\ remote' = rem
         /\ cache' = r.cache
         /\ dirExists' = r.dirExists
         /\ fileState' = r.fileState
         /\ stats' = r.stats
         /\ results' = Append(results, r.result)
         /\ entry' = IF r.ranBody THEN << fileState, rem >> ELSE entry
         /\ loadError' = IF r.ranBody THEN r.error ELSE loadError
         /\ loadable' = (fileState = "valid" \/ (fileState = "absent" /\ rem = "ok"))
         /\ model' = r.result
         /\ IF model_is_none(r.result)
              THEN /\ messages' = (IF r.error = "none" THEN {} ELSE {MsgLoadError})
                                    \cup {MsgFailed}
                   /\ outcome' = "model_error"
                   /\ pc' = "idle"
                   /\ offered' = FALSE
              ELSE /\ messages' = IF r.error = "none" THEN {} ELSE {MsgLoadError}
                   /\ outcome' = outcome
                   /\ pc' = "dispatch"
                   /\ offered' = TRUE
  /\ UNCHANGED << opened, held, noWebcamAt, runs, clicked, option,
                  uploaded_file, cap, stop_button, probed, frames, releases,
                  rerunRequested, stopAt, atRelease, pendingExc, raised,
                  prediction, result, shown >>

(***************************************************************************)
(* The per-class probability table of upload mode, lines 96-98: one row    *)
(* per label, all_predictions[i] read at the label's index.                *)
(***************************************************************************)
table_indices == range(Len(class_names))

(***************************************************************************)
(* main, lines 79-101: upload mode.  exc is what the image makes           *)
(* preprocess_image or model.predict raise, if anything.                   *)
(***************************************************************************)
main_upload ==
  /\ pc = "dispatch"
  /\ option = "Upload Image"
  /\ pc' = "idle"
  /\ IF uploaded_file = None
       THEN /\ outcome' = "upload_idle"
            /\ UNCHANGED << raised, prediction, result, shown >>
       ELSE \E exc \in {"none", "preprocess", "predict"}, d \in Distributions :
              IF exc # "none" \/ model = None
                THEN /\ outcome' = "raised"
                     /\ raised' = IF exc = "none" THEN "predict" ELSE exc
                     /\ UNCHANGED << prediction, result, shown >>
                ELSE LET r == predict(<< d >>)
                     IN  /\ prediction' = << d >>
                         /\ result' = r
                         /\ IF \E i \in table_indices : i \notin range(Len(r[3]))
                              THEN /\ outcome' = "raised"
                                   /\ raised' = "index"
                                   /\ shown' = << r[1], r[2], << >> >>
                              ELSE /\ outcome' = "upload_done"
                                   /\ raised' = raised
                                   /\ shown' = << r[1], r[2],
                                                  [k \in 1 .. Len(class_names) |->
                                                     At(r[3], k - 1)] >>
  /\ UNCHANGED << processVars, remote, opened, held, noWebcamAt, runs, clicked,
                  option, uploaded_file, model, cap, stop_button, probed,
                  offered, frames, releases, rerunRequested, stopAt, atRelease,
                  pendingExc, messages >>

(***************************************************************************)
(* main, lines 103-112: webcam mode up to the loop.  A button is True only *)
(* in the run its click started, so stop_button is False in a run started  *)
(* by Start Webcam.                                                        *)
(***************************************************************************)
cap_is_none_never(c) == FALSE

cap_is_none(c) == c = None

main_webcam_start ==
  /\ pc = "dispatch"
  /\ option = "Webcam"
  /\ IF clicked # "start"
       THEN /\ pc' = "idle"
            /\ outcome' = "webcam_idle"
            /\ UNCHANGED << cap, probed, held, noWebcamAt, messages, stop_button,
                            opened >>
       ELSE \E open \in [range(NumProbe) -> BOOLEAN] :
            LET g == get_webcam(open)
            IN  /\ opened' = {i \in range(NumProbe) :
                                 open[i] /\ \E k \in 1 .. Len(g.probed) : g.probed[k] = i}
                /\ cap' = g.cap
                /\ probed' = g.probed
                /\ held' = IF g.cap = None THEN held ELSE held \cup {g.cap}
                /\ IF cap_is_none(g.cap)
                     THEN /\ messages' = messages \cup {MsgNoWebcam}
                          /\ noWebcamAt' = model
                          /\ outcome' = "no_webcam"
                          /\ pc' = "idle"
                          /\ stop_button' = stop_button
                     ELSE /\ stop_button' = (clicked = "stop")
                          /\ pc' = "loop_test"
                          /\ UNCHANGED << messages, noWebcamAt, outcome >>
  /\ UNCHANGED << processVars, remote, runs, clicked, option,
                  uploaded_file, model, offered, frames, releases,
                  rerunRequested, stopAt, atRelease, pendingExc, raised,
                  prediction, result, shown >>

loopFrame ==
  << processVars, remote, opened, held, noWebcamAt, runs, clicked, option,
     uploaded_file, model, cap, stop_button, probed, offered, releases,
     rerunRequested, stopAt, atRelease, outcome, raised, messages >>

(* while not stop_button, line 115. *)
loop_test ==
  /\ pc = "loop_test"
  /\ pc' = IF stop_button THEN "finally" ELSE "loop_read"
  /\ UNCHANGED << loopFrame, frames, pendingExc, prediction, result, shown >>

(* ret, frame = cap.read(); if not ret: break, lines 116-118. *)
loop_read ==
  /\ pc = "loop_read"
  /\ IF cap = None
       THEN /\ pendingExc' = "attribute"
            /\ pc' = "finally"
            /\ frames' = frames
       ELSE \E ret \in BOOLEAN :
              /\ ret => frames.read < MaxFrames
              /\ pendingExc' = pendingExc
              /\ IF ret
                   THEN /\ frames' = [frames EXCEPT !.read = @ + 1]
                        /\ pc' = "loop_infer"
                   ELSE /\ frames' = frames
                        /\ pc' = "finally"
  /\ UNCHANGED << loopFrame, prediction, result, shown >>

(* preprocess_image(frame) and predict(model, processed_frame), lines 120-121. *)
loop_infer ==
  /\ pc = "loop_infer"
  /\ \E exc \in {"none", "preprocess", "predict"}, d \in Distributions :
       IF exc # "none" \/ model = None
         THEN /\ pendingExc' = IF exc = "none" THEN "predict" ELSE exc
              /\ pc' = "finally"
              /\ UNCHANGED << frames, prediction, result >>
         ELSE /\ prediction' = << d >>
              /\ result' = predict(<< d >>)
              /\ frames' = [frames EXCEPT !.predicted = @ + 1]
              /\ pendingExc' = pendingExc
              /\ pc' = "loop_display"
  /\ UNCHANGED << loopFrame, shown >>

(***************************************************************************)
(* cv2.putText, stframe.image and the second stop test, lines 123-128.     *)
(* stframe.image is a Streamlit element call: with a rerun request pending *)
(* the script runner raises its script-control exception there, before the *)
(* element is sent; otherwise the annotated frame is displayed, or the     *)
(* rendering raises.                                                       *)
(***************************************************************************)
loop_display_no_element ==
  /\ pc = "loop_display"
  /\ pc' = IF stop_button THEN "finally" ELSE "loop_test"
  /\ UNCHANGED << loopFrame, frames, pendingExc, prediction, result, shown >>

loop_display ==
  /\ pc = "loop_display"
  /\ IF rerunRequested
       THEN /\ pendingExc' = "rerun"
            /\ pc' = "finally"
            /\ UNCHANGED << frames, shown >>
       ELSE \E exc \in {"none", "render"} :
              IF exc # "none"
                THEN /\ pendingExc' = exc
                     /\ pc' = "finally"
                     /\ UNCHANGED << frames, shown >>
                ELSE /\ shown' = << result[1], result[2], << >> >>
                     /\ frames' = [frames EXCEPT !.displayed = @ + 1]
                     /\ pendingExc' = pendingExc
                     /\ pc' = IF stop_button THEN "finally" ELSE "loop_test"
  /\ UNCHANGED << loopFrame, prediction, result >>

(***************************************************************************)
(* try: ... finally: cap.release(), lines 114 and 130-131: the cleanup     *)
(* runs whether the loop ended or an exception is unwinding, and the       *)
(* exception then leaves main.                                             *)
(***************************************************************************)
finally_runs_normal_exit_only(exc) == exc = "none"

finally_runs(exc) == TRUE

loop_finally ==
  /\ pc = "finally"
  /\ IF finally_runs(pendingExc) /\ cap # None
       THEN /\ held' = held \ {cap}
            /\ releases' = releases + 1
            /\ atRelease' = << frames >>
       ELSE UNCHANGED << held, releases, atRelease >>
  /\ outcome' = CASE pendingExc = "none" -> "webcam_done"
                  [] pendingExc = "rerun" -> "interrupted"
                  [] OTHER -> "raised"
  /\ raised' = IF pendingExc \in {"none", "rerun"} THEN raised ELSE pendingExc
  /\ pc' = "idle"
  /\ UNCHANGED << processVars, remote, opened, noWebcamAt, runs, clicked,
                  option, uploaded_file, model, cap, stop_button, probed,
                  offered, frames, rerunRequested, stopAt, pendingExc,
                  messages, prediction, result, shown >>

(***************************************************************************)
(* The user clicks Stop Webcam, rendered at line 112, while the loop runs: *)
(* the script runner records a rerun request.                              *)
(***************************************************************************)
ClickStop ==
  /\ pc \in LoopPcs
  /\ ~rerunRequested
  /\ rerunRequested' = TRUE
  /\ stopAt' = << frames >>
  /\ UNCHANGED << processVars, remote, opened, held, noWebcamAt, pc, runs,
                  clicked, option, uploaded_file, model, cap, stop_button,
                  probed, offered, frames, releases, atRelease, pendingExc,
                  outcome, raised, messages, prediction, result, shown >>

Next ==
  \/ UserInteraction
  \/ Rerun
  \/ ClickStop
  \/ main_load
  \/ main_upload
  \/ main_webcam_start
  \/ loop_test
  \/ loop_read
  \/ loop_infer
  \/ loop_display
  \/ loop_finally

Spec == Init /\ [][Next]_vars

(***************************************************************************)
(* The steps of the script and of the script runner.  The script runs on   *)
(* one thread from statement to statement; each step is taken provided the *)
(* blocking call in it (download, device read, inference) returns.         *)
(***************************************************************************)
ScriptStep ==
  \/ Rerun
  \/ main_load
  \/ main_upload
  \/ main_webcam_start
  \/ loop_test
  \/ loop_read
  \/ loop_infer
  \/ loop_display
  \/ loop_finally

FairSpec == Spec /\ WF_vars(ScriptStep)

Session == LoopPcs \cup {"finally"}

(***************************************************************************)
(* C1.  A stop issued while the frame loop runs takes effect within one    *)
(* frame: from then on at most one more frame is read and predicted and    *)
(* none is displayed, the run ends with the device released, and after the *)
(* release no frame is read, predicted or displayed; and the release does  *)
(* follow every stop.                                                      *)
(***************************************************************************)
C1_Bounded ==
  /\ stopAt # << >> =>
       /\ frames.read <= stopAt[1].read + 1
       /\ frames.predicted <= stopAt[1].predicted + 1
       /\ frames.displayed = stopAt[1].displayed
       /\ pc = "idle" => releases = 1 /\ held = {}
  /\ atRelease # << >> => frames = atRelease[1] /\ pc = "idle" /\ held = {}

C1_StopWithinOneFrame ==
  /\ []C1_Bounded
  /\ (stopAt # << >>) ~> (atRelease # << >> /\ pc = "idle")

C1_Witness ==
  /\ stopAt # << >>
  /\ outcome = "interrupted"
  /\ frames.read = stopAt[1].read + 1
  /\ releases = 1

C3_LoadOnce ==
  Len(results) >= 1 =>
    /\ stats.bodyRuns = 1
    /\ stats.fileChecks = 1
    /\ stats.downloads <= 1
    /\ stats.deserializations <= 1
    /\ \A i \in 1 .. Len(results) : results[i] = results[1]

C3_Witness ==
  /\ Len(results) >= 2
  /\ results[2] # None
  /\ stats.downloads = 1

(***************************************************************************)
(* C4.  A failed download or deserialization makes load_model return None, *)
(* and a run whose load_model returned None shows the error and does       *)
(* nothing else: no input method, no probe, no device, no prediction.      *)
(***************************************************************************)
C4_NoModelNoProcessing ==
  /\ loadError # "none" => cache.set /\ cache.value = None
  /\ (runs > 0 /\ pc # "main" /\ model = None) =>
       /\ pc = "idle"
       /\ outcome = "model_error"
       /\ MsgFailed \in messages
       /\ ~offered
       /\ probed = << >>
       /\ cap = None
       /\ held = {}
       /\ frames = NoFrames
       /\ result = << >>
       /\ shown = << >>

C4_Witness ==
  /\ outcome = "model_error"
  /\ loadError = "deserialize"
  /\ messages = {MsgLoadError, MsgFailed}

(***************************************************************************)
(* C5.  With the artifact missing and the remote unreachable, the load     *)
(* fails in the download and nothing is left at models/best_model.keras.   *)
(***************************************************************************)
C5_NoPartialFile ==
  entry = << "absent", "unreachable" >> =>
    /\ loadError = "download"
    /\ cache.value = None
    /\ \A i \in 1 .. Len(results) : results[i] = None
    /\ fileState = "absent"

C5_Witness ==
  /\ entry = << "absent", "unreachable" >>
  /\ outcome = "model_error"
  /\ runs = 2

(***************************************************************************)
(* C6.  A refresh after a failed load runs the load again: a run whose     *)
(* artifact is on disk and valid, or missing and downloadable, gets a      *)
(* model.                                                                  *)
(***************************************************************************)
C6_RefreshRecovers ==
  (runs > 0 /\ pc # "main" /\ loadable) => model # None

(***************************************************************************)
(* C7.  predict returns the label and the probability at the lowest index  *)
(* that attains the maximum of the distribution the classifier returned.   *)
(***************************************************************************)
LowestMax(d) ==
  LET values == {At(d, i) : i \in range(Len(d))}
      max == CHOOSE v \in values : \A w \in values : w <= v
      attain == {i \in range(Len(d)) : At(d, i) = max}
  IN  CHOOSE i \in attain : \A j \in attain : i <= j

C7_PredictArgmax ==
  result # << >> =>
    /\ result[1] = At(class_names, LowestMax(prediction[1]))
    /\ result[2] = At(prediction[1], LowestMax(prediction[1]))
    /\ result[3] = prediction[1]

C7_Witness ==
  /\ result # << >>
  /\ prediction[1] = TwoPeaks(23, 49)
  /\ result[1] = "LOWER CONTROL ARM"
  /\ result[2] = 404

(***************************************************************************)
(* C8 as stated: the label set has 49 entries and every distribution has   *)
(* the length of the label set.                                            *)
(***************************************************************************)
C8_FortyNineLabels ==
  /\ Len(class_names) = 49
  /\ result # << >> => Len(result[3]) = Len(class_names)

(***************************************************************************)
(* C8 amended.  The label set has 50 entries; a distribution of the        *)
(* classifier has one entry per label, so the index predict selects and    *)
(* every index the upload table reads are indices of the distribution.     *)
(***************************************************************************)
C8_FiftyLabels ==
  /\ Len(class_names) = 50
  /\ result # << >> =>
       /\ Len(result[3]) = Len(class_names)
       /\ \E i \in range(Len(result[3])) : result[1] = At(class_names, i)
  /\ outcome = "upload_done" =>
       /\ table_indices \subseteq range(Len(result[3]))
       /\ Len(shown[3]) = 50

C8_Witness ==
  /\ outcome = "upload_done"
  /\ result[1] = "WINDOW REGULATOR"
  /\ shown[3] = OnePeak(49)

(***************************************************************************)
(* C9.  get_webcam tries 0, 1, 2, 3 in order, returns the lowest index     *)
(* that opens without trying a higher one, and returns None exactly when   *)
(* none opens.                                                             *)
(***************************************************************************)
C9_LowestOpenIndex ==
  probed # << >> =>
    /\ opened = {} => cap = None /\ probed = << 0, 1, 2, 3 >>
    /\ opened # {} =>
         /\ opened = {cap}
         /\ probed = [k \in 1 .. cap + 1 |-> k - 1]

C9_Witness ==
  /\ probed = << 0, 1, 2 >>
  /\ cap = 2
  /\ opened = {2}

(***************************************************************************)
(* C10.  With no camera opening only the camera path stops: no loop, no    *)
(* device held; a later upload run gets the same model handle and renders  *)
(* the prediction of its image.                                            *)
(***************************************************************************)
C10_UploadUnaffected ==
  /\ outcome = "no_webcam" =>
       /\ pc = "idle"
       /\ probed = << 0, 1, 2, 3 >>
       /\ MsgNoWebcam \in messages
       /\ frames = NoFrames
       /\ releases = 0
  /\ cap = None => pc \notin Session /\ held = {}
  /\ (noWebcamAt # None /\ outcome = "upload_done") =>
       /\ model = noWebcamAt
       /\ stats.deserializations = 1
       /\ shown[1] = At(class_names, LowestMax(prediction[1]))
       /\ shown[2] = At(prediction[1], LowestMax(prediction[1]))
       /\ shown[3] = prediction[1]

C10_Witness ==
  /\ noWebcamAt # None
  /\ outcome = "upload_done"
  /\ runs = 2
  /\ model = 1
  /\ shown[1] = "LOWER CONTROL ARM"

====
